---- MODULE Spec2Model ----
(***************************************************************************)
(* Data-refresh subsystem of the EMIS dashboards: the ETag-aware           *)
(* fetch-and-cache layer (services/api.py), the start-once background      *)
(* refresher and the warehouse-version poll (app.py), and the page         *)
(* callbacks that read the data (pages/*.py).                              *)
(*                                                                         *)
(* Threads: "main" imports the modules and makes the import-time start     *)
(* call; "bg" is the 'bg-refresh' thread; the workers are request-handling *)
(* threads of the web framework, each running the before_request hook and  *)
(* then one callback.  The warehouse (login, data and version endpoints),  *)
(* the file system and the browsers are the environment.                   *)
(***************************************************************************)
EXTENDS Integers, Sequences, FiniteSets, TLC

\* ------------------------------------------------------------------ bounds
NumWorkers == 1        \* request-handling threads that serve callbacks
NumHookWorkers == 2    \* request-handling threads in the start-guard specification
NumBrowsers == 1       \* browsers connected
NumPayloads == 2       \* distinct non-empty payloads the warehouse can serve
NumVersions == 2       \* distinct warehouse versions
MaxChanges == 1        \* warehouse data or version changes per behaviour
MaxFaults == 1         \* injected failures (login, HTTP, file write) per behaviour
MaxRequests == 1       \* page requests not driven by the modelled browsers
NumYears == 1          \* survey years a year filter offers
NumCallers == 2        \* threads calling the connection-status registry
MaxRegCalls == 3       \* registry calls per behaviour

\* ------------------------------------------------------- program constants
SleepSecs == 300       \* time.sleep(300) in _loop
PollSecs == 60         \* dcc.Interval warehouse-version-tick, 60*1000 ms
RefreshSecs == 300     \* dcc.Interval bg-refresh, 300_000 ms

\* Granularity of modelled time: one poll period (which divides the sleep).
TickSecs == PollSecs

\* The resources in the order background_refresh_all refreshes them.
AllResources ==
  << "lookups", "enrol", "tableenrolx", "teachercount", "teacherpdx",
     "teacherpdattendancex", "schoolcount", "specialed", "accreditation",
     "accreditation_bystandard", "exams" >>

\* The resources carried by the model: the lookup resource and one DataFrame
\* resource that page callbacks read.
Res == {"lookups", "tableenrolx"}

InRes(r) == r \in Res

\* background_refresh_all's sequence of get() calls, restricted to Res.
RefreshOrder == SelectSeq(AllResources, InRes)

is_lookup(r) == r = "lookups"

Workers == {"w1", "w2", "w3"}
WorkerSeq == << "w1", "w2", "w3" >>
ActiveWorkers == {WorkerSeq[i] : i \in 1..NumWorkers}
HookWorkers == {WorkerSeq[i] : i \in 1..NumHookWorkers}
Threads == {"main", "bg"} \cup Workers
BrowserSeq == << "b1", "b2", "b3" >>
Browsers == {BrowserSeq[i] : i \in 1..NumBrowsers}

\* ----------------------------------------------------------------- values
\* A JSON payload is its sequence of rows (entries of the lookup dict, records
\* of a table); <<>> is the empty payload ({} or []).
RowsOf(k) == IF k = 0 THEN << >> ELSE << k >>
Payloads == {RowsOf(k) : k \in 0..NumPayloads}
NonEmptyPayloads == Payloads \ {<< >>}

\* Python values held in memory or returned: None, a dict, a DataFrame.
None == [kind |-> "None", rows |-> << >>]
Dict(rows) == [kind |-> "dict", rows |-> rows]
DataFrame(rows) == [kind |-> "df", rows |-> rows]

\* `cached_data if is_lookup else pd.DataFrame(cached_data)`
Wrap(r, rows) == IF is_lookup(r) THEN Dict(rows) ELSE DataFrame(rows)
\* `{} if is_lookup else pd.DataFrame()`
Empty(r) == Wrap(r, << >>)

\* Files.  A cache file is absent, or holds text that json.load either parses
\* (valid, giving back the dumped payload) or rejects (truncated / partial).
NoFile == [exists |-> FALSE, valid |-> FALSE, rows |-> << >>]
Truncated == [exists |-> TRUE, valid |-> FALSE, rows |-> << >>]
JsonDump(rows) == [exists |-> TRUE, valid |-> TRUE, rows |-> rows]
\* An .etag sidecar is absent or holds a tag; tag 0 is the empty text.
NoEtagFile == [exists |-> FALSE, tag |-> 0]
EtagText(tag) == [exists |-> TRUE, tag |-> tag]

\* The warehouse's validator for a payload: equal payloads carry equal ETags.
ETagOf(rows) == IF rows = << >> THEN 1 ELSE rows[1] + 1

\* ------------------------------------------------------------ the pages
\* The page callbacks that render data of a registered resource: the resource,
\* whether "warehouse-version-store" is an Input of the callback, and whether
\* the callback obtains its data through the accessor when it runs (otherwise
\* it uses the name its module imported from services.api).
PageRow(res, store, accessor) ==
  [res |-> res, store |-> store, accessor |-> accessor]

AllPages ==
  { "students_overview", "students", "teachers_overview", "teachers_samples",
    "teachers_pd_attendance", "teachers_pd_attendants", "teachers_pd_overview",
    "schools_overview", "specialed_overview", "schoolaccreditation_overview",
    "exams_exams", "exams_benchmarks" }

PageTable(p) ==
  CASE p = "students_overview" -> PageRow("tableenrolx", TRUE, TRUE)
    [] p = "students" -> PageRow("tableenrolx", FALSE, FALSE)
    [] p = "teachers_overview" -> PageRow("teachercount", TRUE, TRUE)
    [] p = "teachers_samples" -> PageRow("teachercount", FALSE, FALSE)
    [] p = "teachers_pd_attendance" -> PageRow("teacherpdattendancex", TRUE, TRUE)
    [] p = "teachers_pd_attendants" -> PageRow("teacherpdx", TRUE, TRUE)
    [] p = "teachers_pd_overview" -> PageRow("teacherpdx", TRUE, TRUE)
    [] p = "schools_overview" -> PageRow("schoolcount", TRUE, TRUE)
    [] p = "specialed_overview" -> PageRow("specialed", TRUE, TRUE)
    [] p = "schoolaccreditation_overview" -> PageRow("accreditation", TRUE, TRUE)
    [] p = "exams_exams" -> PageRow("exams", TRUE, TRUE)
    [] p = "exams_benchmarks" -> PageRow("exams", TRUE, TRUE)

\* The pages whose resource the model carries.
Pages == {p \in AllPages : PageTable(p).res \in Res}

\* api.df_tableenrolx, the module-level name students.py imports: bound to an
\* empty DataFrame when services.api is imported and never rebound.
df_tableenrolx == DataFrame(<< >>)

\* ------------------------------------------------------ page callback results
\* Values of a year filter: 0 is None (nothing selected); a payload's row k
\* is a record of survey year k.
Years == 0..NumYears

\* `df[df["SurveyYear"] == selected_year]` is not empty.
HasRowsFor(df, y) == df.rows # << >> /\ df.rows[1] = y

\* What a page callback hands back: the "no data" return (empty figures and
\* tables, the alert opened with a message, the charts container hidden), the
\* charts, a tuple of dash.no_update, or an exception.
Banner(msg) == [kind |-> "banner", msg |-> msg]
Charts == [kind |-> "charts", msg |-> ""]
NoUpdates == [kind |-> "no_update", msg |-> ""]
Raised == [kind |-> "raised", msg |-> ""]
NotShown == [kind |-> "none", msg |-> ""]

\* The callback tests `df is None or df.empty` and `filtered.empty` before it
\* builds anything: the callbacks that fetch through the accessor do,
\* students.py and teachers_samples.py do not.
GuardsFrame(p) == PageTable(p).accessor

\* update_dashboard(selected_year, ...) of page p on the frame df.
update_dashboard(p, df, y) ==
  IF GuardsFrame(p)
    THEN IF y = 0 THEN Banner("No data")
         ELSE IF df.kind = "None" \/ df.rows = << >> THEN Banner("No data available.")
         ELSE IF ~HasRowsFor(df, y) THEN Banner("No data available for year")
         ELSE Charts
    ELSE IF y = 0 THEN NoUpdates
         ELSE IF df.kind = "None" \/ df.rows = << >> THEN Raised
         ELSE Charts

\* ------------------------------------------------- the version poll values
\* A version as get_warehouse_version returns it and as the store holds it:
\* {"id": ..., "datetime": ...}; id 0 and dt 0 stand for None.  NoVersion is
\* Python's None (the store before any update, or "no row").
NoVersion == [set |-> FALSE, id |-> 0, dt |-> 0]
Version(id, dt) == [set |-> TRUE, id |-> id, dt |-> dt]

\* Values of versionDateTime: 0 absent, BadDateTime a text fromisoformat
\* rejects, the others ISO datetimes.
BadDateTime == NumVersions + 1
DateTimes == 0..BadDateTime

\* Rows the version endpoint can serve: ID and versionDateTime.
VersionRows == {[ID |-> i, versionDateTime |-> i] : i \in 1..NumVersions}
                 \cup {[ID |-> NumVersions, versionDateTime |-> BadDateTime]}

FirstVersionRow == [ID |-> 1, versionDateTime |-> 1]

\* What the version endpoint answered: a JSON list of n rows, a JSON dict, any
\* other JSON value, or a failure (an HTTP error status, a network error).
Response(shape, n, row) == [shape |-> shape, n |-> n, row |-> row]
NoRow == [ID |-> 0, versionDateTime |-> 0]
NoResponse == Response("none", 0, NoRow)

\* The footer text.
UnknownLabel == [kind |-> "unknown", dt |-> 0]

NoCallback == [kind |-> "none", page |-> "none", browser |-> "none"]
Callback(kind, page, browser) == [kind |-> kind, page |-> page, browser |-> browser]

\* ------------------------------------------- the connection-status registry
\* Names a connection can be registered under: the three registered when
\* services.connection_status is imported, and one that is not.
PreRegistered == {"SQL Server", "API Authentication", "API Data"}
RegNames == PreRegistered \cup {"Other"}
source_type(n) == IF n = "SQL Server" THEN "sql" ELSE "api"

\* The threads that call the registry.
CallerIds == << "c1", "c2", "c3", "c4" >>
Callers == {CallerIds[i] : i \in 1..NumCallers}

\* Error messages passed to set_error; datetime.now() at the time of a call.
Messages == {"timeout", "login failed"}
NoValue == "None"
Now == "now"

\* ConnectionStatus(name=name, source_type=source_type)
ConnectionStatus(n) ==
  [source_type |-> source_type(n), is_connected |-> FALSE,
   last_success |-> NoValue, last_error |-> NoValue, error_message |-> NoValue]

NoCall == [op |-> "none", name |-> "none", msg |-> NoValue]
NoResult == [names |-> {}, flag |-> FALSE]

\* ---------------------------------------------------------------- state
VARIABLES
  srvData,            \* warehouse: resource -> payload currently served
  changes, faults, requests,   \* budgets spent
  cacheFile,          \* resource -> cache file (cache_file)
  etagFile,           \* resource -> ETag sidecar (cache_file + ".etag")
  obj,                \* resource -> DataResource._obj
  lookup_dict,        \* api.lookup_dict, bound once at import
  auth_status,        \* api.auth_status
  data_status,        \* api.data_status
  bg_thread_started,  \* app._bg_thread_started
  bg_lock,            \* app._bg_lock: "free" or the thread holding it
  bgThreads,          \* number of 'bg-refresh' threads started so far
  phase,              \* thread -> what it is doing at top level
  pc,                 \* thread -> position inside the current call
  fres,               \* thread -> resource of the get() in progress
  finm,               \* thread -> If-None-Match header sent (0: none)
  fstatus,            \* thread -> response.status_code (0: none yet)
  fbody,              \* thread -> response.json()
  fetag,              \* thread -> response.headers.get("ETag") (0: none)
  fret,               \* thread -> value fetch_data returns
  gret,               \* thread -> value DataResource.get returned
  bgIdx,              \* position of the bg thread in RefreshOrder
  bgSleepLeft,        \* seconds left of the bg thread's time.sleep(300)
  cb,                 \* worker -> callback being served: kind, page, browser
  cbState,            \* worker -> "none", "running", "done", "prevented", "error"
  cbArg,              \* worker -> the store value the request carried
  cbResp,             \* worker -> the version endpoint's response to the poll
  out,                \* worker -> data the page callback rendered from
  cbYear,             \* worker -> the year-filter value the request carried
  shown,              \* worker -> what the page callback handed back
  cbIdx,              \* worker -> position in RefreshOrder of the
                      \* background_refresh_all its callback is running
  srvVersion,         \* warehouse: the row the version endpoint serves
  verStable,          \* the version endpoint has settled: same row, no failure
  store,              \* browser -> dcc.Store "warehouse-version-store"
  label,              \* browser -> children of "warehouse-last-updated"
  view,               \* browser -> the page it shows
  pollLeft,           \* browser -> seconds until "warehouse-version-tick" fires
  pending,            \* browser -> callbacks triggered and not yet requested
  refreshLeft,        \* browser -> seconds until its "bg-refresh" Interval fires
  nLogin, nGet,       \* thread -> login POSTs / data GETs issued in the
                      \* current callback or refresh
  lastGood,           \* resource -> the completed 200-with-ETag cache write
                      \* that still describes files and warehouse, if any
  fgood,              \* thread -> its fetch began under such a write
  watch,              \* the warehouse change being followed through the next
                      \* background refresh: stage and resource
  fsync,              \* thread -> the cache file still holds what its fetch
                      \* read from it or wrote to it
  statuses,           \* ConnectionStatusRegistry._statuses: name -> status
  regLock,            \* ConnectionStatusRegistry._lock: its holder, or free
  rpc,                \* caller -> position in its registry call
  rcall,              \* caller -> the registry call it is making
  rres,               \* caller -> what its last call returned
  regCalls,           \* registry calls begun
  lastCall,           \* name -> the last completed set_success / set_error
                      \* call for the name: "none", "success", "error"
  lastApplied         \* the same, counting only calls that found the name
                      \* registered

envVars == << srvData, changes, faults, requests >>
fileVars == << cacheFile, etagFile >>
memVars == << obj, lookup_dict, auth_status, data_status >>
guardVars == << bg_thread_started, bg_lock, bgThreads >>
fetchVars == << fres, finm, fstatus, fbody, fetag, fret, gret >>
bgVars == << bgIdx, bgSleepLeft >>
cbVars == << cb, cbState, cbArg, cbResp, out, cbIdx, cbYear, shown >>
uiVars == << srvVersion, verStable, store, label, view, pollLeft, pending,
           refreshLeft >>
ghostVars == << nLogin, nGet, lastGood, fgood, watch, fsync >>
regVars == << statuses, regLock, rpc, rcall, rres, regCalls, lastCall, lastApplied >>
vars == << envVars, fileVars, memVars, guardVars, phase, pc, fetchVars,
           bgVars, cbVars, uiVars, ghostVars, regVars >>

NoGood == [valid |-> FALSE, tag |-> 0, rows |-> << >>]

\* stage "changed": r's data changed to a non-empty payload and nothing has
\* failed since; "ticking": a background refresh that began after that is in
\* progress, still with no failure and no further change.
Watch(stage, r) == [stage |-> stage, res |-> r]
NoWatch == Watch("none", "none")

\* The registry after services.connection_status has been imported.
RegInit ==
  /\ statuses = [n \in PreRegistered |-> ConnectionStatus(n)]
  /\ regLock = "free"
  /\ rpc = [c \in Callers |-> "idle"]
  /\ rcall = [c \in Callers |-> NoCall]
  /\ rres = [c \in Callers |-> NoResult]
  /\ regCalls = 0
  /\ lastCall = [n \in RegNames |-> "none"]
  /\ lastApplied = [n \in RegNames |-> "none"]

\* State after the interpreter has started and before app.py is imported:
\* nothing cached, nothing in memory, no thread started.
Init ==
  /\ srvData \in [Res -> Payloads]
  /\ changes = 0 /\ faults = 0 /\ requests = 0
  /\ cacheFile = [r \in Res |-> NoFile]
  /\ etagFile = [r \in Res |-> NoEtagFile]
  /\ obj = [r \in Res |-> None]
  /\ lookup_dict = Dict(<< >>)
  /\ auth_status = "not_authenticated"
  /\ data_status = "no_data_loaded"
  /\ bg_thread_started = FALSE
  /\ bg_lock = "free"
  /\ bgThreads = 0
  /\ phase = [t \in Threads |->
                IF t = "main" THEN "warmup" ELSE IF t = "bg" THEN "none" ELSE "idle"]
  /\ pc = [t \in Threads |-> IF t = "main" THEN "import" ELSE "idle"]
  /\ fres = [t \in Threads |-> "lookups"]
  /\ finm = [t \in Threads |-> 0]
  /\ fstatus = [t \in Threads |-> 0]
  /\ fbody = [t \in Threads |-> << >>]
  /\ fetag = [t \in Threads |-> 0]
  /\ fret = [t \in Threads |-> None]
  /\ gret = [t \in Threads |-> None]
  /\ bgIdx = 0
  /\ bgSleepLeft = 0
  /\ cb = [w \in Workers |-> NoCallback]
  /\ cbState = [w \in Workers |-> "none"]
  /\ cbArg = [w \in Workers |-> NoVersion]
  /\ cbResp = [w \in Workers |-> NoResponse]
  /\ out = [w \in Workers |-> None]
  /\ cbIdx = [w \in Workers |-> 0]
  /\ cbYear = [w \in Workers |-> 0]
  /\ shown = [w \in Workers |-> NotShown]
  /\ srvVersion = FirstVersionRow
  /\ verStable = FALSE
  /\ store = [b \in Browsers |-> NoVersion]
  /\ label = [b \in Browsers |-> UnknownLabel]
  /\ view = [b \in Browsers |-> "none"]
  /\ pollLeft = [b \in Browsers |-> PollSecs]
  /\ pending = [b \in Browsers |-> {}]
  /\ refreshLeft = [b \in Browsers |-> RefreshSecs]
  /\ nLogin = [t \in Threads |-> 0]
  /\ nGet = [t \in Threads |-> 0]
  /\ lastGood = [r \in Res |-> NoGood]
  /\ fgood = [t \in Threads |-> FALSE]
  /\ fsync = [t \in Threads |-> FALSE]
  /\ RegInit
  /\ watch = NoWatch

\* ------------------------------------------------------- fetch_data, get
\* Faulty variant: the saved ETag is never sent.
IfNoneMatchNever(r) == 0

\* Faulty variant: the header is derived from the cache file, whether or
\* not a sidecar exists.
IfNoneMatchFromCache(r) ==
  IF cacheFile[r].exists THEN ETagOf(cacheFile[r].rows) ELSE 0

\* `cached_etag`: the If-None-Match value fetch_data sends (0: no header).
\* The tag of a sidecar is its content after strip(); the empty content
\* (tag 0) gives None and no header.
IfNoneMatch(r) ==
  IF cacheFile[r].exists /\ etagFile[r].exists THEN etagFile[r].tag ELSE 0

\* json.load of the cache file followed by the conversion; a file json.load
\* rejects gives the empty result.
ReadCache(r) ==
  IF cacheFile[r].valid THEN Wrap(r, cacheFile[r].rows) ELSE Empty(r)

\* Faulty variant: without a token the cached payload is returned.
NoTokenResultFromCache(r) == ReadCache(r)

\* What fetch_data returns when get_auth_token gave no token.
NoTokenResult(r) == Empty(r)

\* What fetch_data returns on a status other than 200 and 304.
StaleFallback(r) ==
  IF cacheFile[r].exists THEN ReadCache(r) ELSE Empty(r)

\* data_status after a stale fallback, or when there is nothing to fall back to.
FallbackStatus(r) ==
  IF cacheFile[r].exists /\ cacheFile[r].valid THEN "loaded_stale_cache"
  ELSE "data_fetch_failed"

\* Faulty variant: a 304 always reports success.
NotModifiedStatusAlwaysLoaded(r) == "not_modified_loaded_from_cache"

\* data_status after a 304.
NotModifiedStatus(r) ==
  IF ~cacheFile[r].exists THEN "data_fetch_failed"
  ELSE IF cacheFile[r].valid THEN "not_modified_loaded_from_cache"
  ELSE "cache_read_error_after_304"

\* What fetch_data returns on 304.
NotModifiedResult(r) ==
  IF cacheFile[r].exists THEN ReadCache(r) ELSE Empty(r)

\* Faulty variant: whatever fetch_data returned replaces the copy.
UsableAlways(r, o) == o.kind # "None"

\* DataResource.get: whether the fetched object replaces the in-memory copy.
Usable(r, o) ==
  IF is_lookup(r) THEN o.kind = "dict" /\ o.rows # << >>
                  ELSE o.kind = "df" /\ o.rows # << >>

\* Faulty variant: the copy is never replaced.
NewObjKept(r, o) == obj[r]

\* The in-memory copy after get() has looked at the fetched object.
NewObj(r, o) == IF Usable(r, o) THEN o ELSE obj[r]

\* An injected failure of the operation at hand (a login that gives no token,
\* a failing GET, a failing file write), and its absence.
Fault == faults < MaxFaults /\ faults' = faults + 1 /\ watch' = NoWatch
NoFault == faults' = faults /\ watch' = watch

\* Ghost bookkeeping of a write to r's files by thread t: the files are no
\* longer as the last completed 200-with-ETag write left them.
Disturb(t, r) ==
  /\ lastGood' = [lastGood EXCEPT ![r] = NoGood]
  /\ fgood' = [u \in Threads |-> fgood[u] /\ (u = t \/ fres[u] # r)]

\* A thread enters DataResource.get for resource r.
EnterGet(t, r) ==
  /\ pc' = [pc EXCEPT ![t] = "auth"]
  /\ fres' = [fres EXCEPT ![t] = r]

ClearResponse(t) ==
  /\ finm' = [finm EXCEPT ![t] = 0]
  /\ fstatus' = [fstatus EXCEPT ![t] = 0]
  /\ fbody' = [fbody EXCEPT ![t] = << >>]
  /\ fetag' = [fetag EXCEPT ![t] = 0]

\* fetch_data up to the data GET: the login POST, then the header.
FetchAuth(t) ==
  /\ pc[t] = "auth"
  /\ nLogin' = [nLogin EXCEPT ![t] = @ + 1]
  /\ \/ /\ Fault                      \* no token: non-200 login or exception
        /\ fret' = [fret EXCEPT ![t] = NoTokenResult(fres[t])]
        /\ auth_status' = "auth_failed"
        /\ data_status' = "no_valid_token"
        /\ pc' = [pc EXCEPT ![t] = "ret"]
        /\ UNCHANGED << finm, fgood >>
     \/ /\ NoFault
        /\ finm' = [finm EXCEPT ![t] = IfNoneMatch(fres[t])]
        /\ fgood' = [fgood EXCEPT ![t] = lastGood[fres[t]].valid]
        /\ auth_status' = "auth_successful"
        /\ UNCHANGED data_status
        /\ pc' = [pc EXCEPT ![t] = "get"]
        /\ UNCHANGED fret
  /\ UNCHANGED << regVars, uiVars, srvData, changes, requests, fileVars, obj, lookup_dict, guardVars, phase,
                  fres, fstatus, fbody, fetag, gret, bgVars, cbVars, nGet, lastGood, fsync >>

\* requests.get and the dispatch on the status code.  The warehouse answers
\* 304 exactly when the header names its current ETag.
FetchGet(t) ==
  /\ pc[t] = "get"
  /\ nGet' = [nGet EXCEPT ![t] = @ + 1]
  /\ LET r == fres[t]
         match == finm[t] # 0 /\ finm[t] = ETagOf(srvData[r])
     IN \/ /\ NoFault /\ match
           /\ fstatus' = [fstatus EXCEPT ![t] = 304]
           /\ pc' = [pc EXCEPT ![t] = "read304"]
           /\ UNCHANGED << fbody, fetag, fret >>
        \/ /\ NoFault /\ ~match
           /\ fstatus' = [fstatus EXCEPT ![t] = 200]
           /\ fbody' = [fbody EXCEPT ![t] = srvData[r]]
           /\ fetag' = [fetag EXCEPT ![t] = ETagOf(srvData[r])]
           /\ pc' = [pc EXCEPT ![t] = "wopen"]
           /\ UNCHANGED fret
        \/ /\ Fault /\ ~match          \* 200 without an ETag header
           /\ fstatus' = [fstatus EXCEPT ![t] = 200]
           /\ fbody' = [fbody EXCEPT ![t] = srvData[r]]
           /\ pc' = [pc EXCEPT ![t] = "wopen"]
           /\ UNCHANGED << fetag, fret >>
        \/ /\ Fault /\ ~match          \* 200 whose body is not JSON
           /\ fstatus' = [fstatus EXCEPT ![t] = 200]
           /\ fret' = [fret EXCEPT ![t] = Empty(r)]
           /\ pc' = [pc EXCEPT ![t] = "ret"]
           /\ UNCHANGED << fbody, fetag >>
        \/ /\ Fault                    \* any other status
           /\ fstatus' = [fstatus EXCEPT ![t] = 500]
           /\ pc' = [pc EXCEPT ![t] = "fallback"]
           /\ UNCHANGED << fbody, fetag, fret >>
        \/ /\ Fault                    \* requests.get raises
           /\ pc' = [pc EXCEPT ![t] = "raise"]
           /\ UNCHANGED << fstatus, fbody, fetag, fret >>
  /\ data_status' = IF pc'[t] = "ret" THEN "json_parsing_error" ELSE data_status
  /\ fgood' = IF pc'[t] = "raise" THEN [fgood EXCEPT ![t] = FALSE] ELSE fgood
  /\ UNCHANGED << regVars, uiVars, srvData, changes, requests, fileVars, obj, lookup_dict, auth_status, guardVars, phase,
                  fres, finm, gret, bgVars, cbVars, nLogin, lastGood, fsync >>

\* 304: load from the cache file.
FetchRead304(t) ==
  /\ pc[t] = "read304"
  /\ fret' = [fret EXCEPT ![t] = NotModifiedResult(fres[t])]
  /\ data_status' = NotModifiedStatus(fres[t])
  /\ fsync' = [fsync EXCEPT ![t] = cacheFile[fres[t]].valid]
  /\ pc' = [pc EXCEPT ![t] = "ret"]
  /\ UNCHANGED << regVars, uiVars, envVars, fileVars, obj, lookup_dict, auth_status, guardVars, phase, fres, finm,
                  fstatus, fbody, fetag, gret, bgVars, cbVars, nLogin, nGet, lastGood, fgood, watch >>

\* Other status: load stale data if the cache exists.
FetchFallback(t) ==
  /\ pc[t] = "fallback"
  /\ fret' = [fret EXCEPT ![t] = StaleFallback(fres[t])]
  /\ data_status' = FallbackStatus(fres[t])
  /\ pc' = [pc EXCEPT ![t] = "ret"]
  /\ UNCHANGED << regVars, uiVars, envVars, fileVars, obj, lookup_dict, auth_status, guardVars, phase, fres, finm,
                  fstatus, fbody, fetag, gret, bgVars, cbVars, ghostVars >>

\* 200: open(cache_file, "w") truncates the file; a failure skips the write.
FetchOpenCache(t) ==
  /\ pc[t] = "wopen"
  /\ \/ /\ NoFault
        /\ cacheFile' = [cacheFile EXCEPT ![fres[t]] = Truncated]
        /\ Disturb(t, fres[t])
        /\ fsync' = [u \in Threads |-> fsync[u] /\ u # t /\ fres[u] # fres[t]]
        /\ pc' = [pc EXCEPT ![t] = "wdump"]
        /\ UNCHANGED fret
     \/ /\ Fault
        /\ fret' = [fret EXCEPT ![t] = Wrap(fres[t], fbody[t])]
        /\ pc' = [pc EXCEPT ![t] = "ret"]
        /\ UNCHANGED << cacheFile, lastGood, fgood, fsync >>
  /\ data_status' = IF pc'[t] = "ret" THEN "data_retrieved" ELSE data_status
  /\ UNCHANGED << regVars, uiVars, srvData, changes, requests, etagFile, obj, lookup_dict, auth_status, guardVars, phase,
                  fres, finm, fstatus, fbody, fetag, gret, bgVars, cbVars,
                  nLogin, nGet >>

\* json.dump through a handle that open(cache_file, "w") gave: the text goes
\* to the start of the file, which was emptied at the open.  Text that another
\* handle has written since then stays where the new text does not reach, and
\* a longer old text leaves the file unparseable.
DumpOver(file, rows) ==
  IF file.valid /\ Len(file.rows) > Len(rows) THEN Truncated ELSE JsonDump(rows)

\* json.dump into the opened file; a failure leaves it unparseable.
FetchDump(t) ==
  /\ pc[t] = "wdump"
  /\ \/ /\ NoFault
        /\ cacheFile' = [cacheFile EXCEPT ![fres[t]] = DumpOver(cacheFile[fres[t]], fbody[t])]
        /\ IF fetag[t] # 0
             THEN /\ pc' = [pc EXCEPT ![t] = "eopen"]
                  /\ UNCHANGED fret
             ELSE /\ pc' = [pc EXCEPT ![t] = "ret"]
                  /\ fret' = [fret EXCEPT ![t] = Wrap(fres[t], fbody[t])]
     \/ /\ Fault
        /\ cacheFile' = [cacheFile EXCEPT ![fres[t]] = Truncated]
        /\ fret' = [fret EXCEPT ![t] = Wrap(fres[t], fbody[t])]
        /\ pc' = [pc EXCEPT ![t] = "ret"]
  /\ Disturb(t, fres[t])
  /\ fsync' = [u \in Threads |->
                 IF u = t THEN cacheFile'[fres[t]] = JsonDump(fbody[t])
                 ELSE fsync[u] /\ fres[u] # fres[t]]
  /\ data_status' = IF pc'[t] = "ret" THEN "data_retrieved" ELSE data_status
  /\ UNCHANGED << regVars, uiVars, srvData, changes, requests, etagFile, obj, lookup_dict, auth_status, guardVars, phase,
                  fres, finm, fstatus, fbody, fetag, gret, bgVars, cbVars,
                  nLogin, nGet >>

\* open(etag_file, "w") truncates the sidecar.
FetchOpenEtag(t) ==
  /\ pc[t] = "eopen"
  /\ \/ /\ NoFault
        /\ etagFile' = [etagFile EXCEPT ![fres[t]] = EtagText(0)]
        /\ Disturb(t, fres[t])
        /\ pc' = [pc EXCEPT ![t] = "ewrite"]
        /\ UNCHANGED fret
     \/ /\ Fault
        /\ fret' = [fret EXCEPT ![t] = Wrap(fres[t], fbody[t])]
        /\ pc' = [pc EXCEPT ![t] = "ret"]
        /\ UNCHANGED << etagFile, lastGood, fgood >>
  /\ data_status' = IF pc'[t] = "ret" THEN "data_retrieved" ELSE data_status
  /\ UNCHANGED << regVars, uiVars, srvData, changes, requests, cacheFile, obj, lookup_dict, auth_status, guardVars, phase,
                  fres, finm, fstatus, fbody, fetag, gret, bgVars, cbVars,
                  nLogin, nGet, fsync >>

\* f.write(new_etag); then fetch_data returns the fresh data.
FetchWriteEtag(t) ==
  /\ pc[t] = "ewrite"
  /\ LET r == fres[t] IN
     \/ /\ NoFault
        /\ etagFile' = [etagFile EXCEPT ![r] = EtagText(fetag[t])]
        /\ lastGood' = [lastGood EXCEPT ![r] =
             IF cacheFile[r] = JsonDump(fbody[t]) /\ srvData[r] = fbody[t]
               THEN [valid |-> TRUE, tag |-> fetag[t], rows |-> fbody[t]]
               ELSE NoGood]
        /\ fgood' = [u \in Threads |-> fgood[u] /\ (u = t \/ fres[u] # r)]
     \/ /\ Fault
        /\ UNCHANGED << etagFile, lastGood, fgood >>
  /\ fret' = [fret EXCEPT ![t] = Wrap(fres[t], fbody[t])]
  /\ pc' = [pc EXCEPT ![t] = "ret"]
  /\ data_status' = IF pc'[t] = "ret" THEN "data_retrieved" ELSE data_status
  /\ UNCHANGED << regVars, uiVars, srvData, changes, requests, cacheFile, obj, lookup_dict, auth_status, guardVars, phase,
                  fres, finm, fstatus, fbody, fetag, gret, bgVars, cbVars,
                  nLogin, nGet, fsync >>

\* DataResource.get after fetch_data returned: replace the copy if usable,
\* return the copy.
GetReturn(t) ==
  /\ pc[t] = "ret"
  /\ obj' = [obj EXCEPT ![fres[t]] = NewObj(fres[t], fret[t])]
  /\ gret' = [gret EXCEPT ![t] = NewObj(fres[t], fret[t])]
  /\ pc' = [pc EXCEPT ![t] = "back"]
  /\ ClearResponse(t)
  /\ fgood' = [fgood EXCEPT ![t] = FALSE]
  /\ fsync' = [fsync EXCEPT ![t] = FALSE]
  /\ UNCHANGED << regVars, uiVars, envVars, fileVars, lookup_dict, auth_status, data_status, guardVars, phase, fres, fret,
                  bgVars, cbVars, nLogin, nGet, lastGood, watch >>

\* --------------------------------------------------------- start-once guard
\* Faulty variant: the flag is not consulted.
FlagIgnored == FALSE

\* `if _bg_thread_started: return`
AlreadyStarted == bg_thread_started

\* _start_server_side_refresh: `with _bg_lock:`
StartAcquire(t) ==
  /\ pc[t] = "s_acquire"
  /\ bg_lock = "free"
  /\ bg_lock' = t
  /\ pc' = [pc EXCEPT ![t] = "s_check"]
  /\ UNCHANGED << regVars, uiVars, envVars, fileVars, memVars, bg_thread_started, bgThreads, phase,
                  fetchVars, bgVars, cbVars, ghostVars >>

\* The flag test: return (releasing the lock) or set the flag.
StartCheck(t) ==
  /\ pc[t] = "s_check"
  /\ IF AlreadyStarted
       THEN /\ bg_lock' = "free"
            /\ pc' = [pc EXCEPT ![t] = "s_done"]
            /\ UNCHANGED bg_thread_started
       ELSE /\ bg_thread_started' = TRUE
            /\ pc' = [pc EXCEPT ![t] = "s_spawn"]
            /\ UNCHANGED bg_lock
  /\ UNCHANGED << regVars, uiVars, envVars, fileVars, memVars, bgThreads, phase, fetchVars, bgVars,
                  cbVars, ghostVars >>

\* threading.Thread(target=_loop, name="bg-refresh").start(), end of `with`.
StartSpawn(t) ==
  /\ pc[t] = "s_spawn"
  /\ bgThreads' = bgThreads + 1
  /\ bg_lock' = "free"
  /\ phase' = [phase EXCEPT !["bg"] = "loop"]
  /\ pc' = [pc EXCEPT ![t] = "s_done", !["bg"] = "r_call"]
  /\ UNCHANGED << regVars, uiVars, envVars, fileVars, memVars, bg_thread_started, fetchVars, bgVars,
                  cbVars, ghostVars >>

\* ------------------------------------------------------------ main thread
\* `import services.api`: the warm-up `lookup_dict = get_lookup_dict() or {}`.
MainWarmup ==
  /\ phase["main"] = "warmup" /\ pc["main"] = "import"
  /\ EnterGet("main", "lookups")
  /\ UNCHANGED << regVars, uiVars, envVars, fileVars, memVars, guardVars, phase, finm, fstatus,
                  fbody, fetag, fret, gret, bgVars, cbVars, ghostVars >>

\* The warm-up get returned: bind lookup_dict; then the page modules are
\* imported, and students_overview.py calls get_df_tableenrolx().
MainImportPages ==
  /\ phase["main"] = "warmup" /\ pc["main"] = "back"
  /\ lookup_dict' = IF gret["main"].rows # << >> THEN gret["main"] ELSE Dict(<< >>)
  /\ phase' = [phase EXCEPT !["main"] = "pages"]
  /\ EnterGet("main", "tableenrolx")
  /\ UNCHANGED << regVars, uiVars, envVars, fileVars, obj, auth_status, data_status, guardVars, finm, fstatus, fbody, fetag,
                  fret, gret, bgVars, cbVars, ghostVars >>

\* The import-time call of _start_server_side_refresh().
MainStartCall ==
  /\ phase["main"] = "pages" /\ pc["main"] = "back"
  /\ phase' = [phase EXCEPT !["main"] = "start"]
  /\ pc' = [pc EXCEPT !["main"] = "s_acquire"]
  /\ UNCHANGED << regVars, uiVars, envVars, fileVars, memVars, guardVars, fetchVars, bgVars, cbVars,
                  ghostVars >>

\* The import is complete: the server starts handling requests.
MainServe ==
  /\ phase["main"] = "start" /\ pc["main"] = "s_done"
  /\ phase' = [phase EXCEPT !["main"] = "serving"]
  /\ pc' = [pc EXCEPT !["main"] = "idle"]
  /\ UNCHANGED << regVars, uiVars, envVars, fileVars, memVars, guardVars, fetchVars, bgVars, cbVars,
                  ghostVars >>

\* An exception during import ends the process before it serves anything.
MainCrash ==
  /\ pc["main"] = "raise"
  /\ phase' = [phase EXCEPT !["main"] = "crashed"]
  /\ pc' = [pc EXCEPT !["main"] = "idle"]
  /\ UNCHANGED << regVars, uiVars, envVars, fileVars, memVars, guardVars, fetchVars, bgVars, cbVars,
                  ghostVars >>

\* ------------------------------------------------------ 'bg-refresh' thread
\* Faulty variant: a failed refresh is retried at once.
RetryAtOnce == "r_call"

\* Where _loop continues when an exception occurs inside the refresh:
\* background_refresh_all catches it (and so would _loop), then time.sleep.
AfterRefreshError == "sleep"

\* Where _loop continues when background_refresh_all returned normally.
AfterRefresh == "sleep"

ResetCounts(t) ==
  /\ nLogin' = [nLogin EXCEPT ![t] = 0]
  /\ nGet' = [nGet EXCEPT ![t] = 0]

\* _loop calls background_refresh_all, which starts with res_lookup.get().
BgCallRefresh ==
  /\ pc["bg"] = "r_call"
  /\ bgIdx' = 1
  /\ EnterGet("bg", RefreshOrder[1])
  /\ ResetCounts("bg")
  /\ watch' = IF watch.stage = "changed" THEN Watch("ticking", watch.res) ELSE watch
  /\ UNCHANGED << regVars, uiVars, envVars, fileVars, memVars, guardVars, phase, finm, fstatus,
                  fbody, fetag, fret, gret, bgSleepLeft, cbVars, lastGood, fgood, fsync >>

\* The next get() of background_refresh_all.
BgNextResource ==
  /\ pc["bg"] = "back"
  /\ bgIdx < Len(RefreshOrder)
  /\ bgIdx' = bgIdx + 1
  /\ EnterGet("bg", RefreshOrder[bgIdx + 1])
  /\ UNCHANGED << regVars, uiVars, envVars, fileVars, memVars, guardVars, phase, finm, fstatus,
                  fbody, fetag, fret, gret, bgSleepLeft, cbVars, ghostVars >>

\* background_refresh_all returns after its last get(); _loop sleeps.
BgRefreshDone ==
  /\ pc["bg"] = "back"
  /\ bgIdx = Len(RefreshOrder)
  /\ bgIdx' = 0
  /\ pc' = [pc EXCEPT !["bg"] = AfterRefresh]
  /\ bgSleepLeft' = SleepSecs
  /\ watch' = IF watch.stage = "ticking" THEN NoWatch ELSE watch
  /\ UNCHANGED << regVars, uiVars, envVars, fileVars, memVars, guardVars, phase, fetchVars, cbVars,
                  nLogin, nGet, lastGood, fgood, fsync >>

\* A get() raised: the rest of the refresh is skipped; _loop sleeps.
BgRefreshError ==
  /\ pc["bg"] = "raise"
  /\ bgIdx' = 0
  /\ pc' = [pc EXCEPT !["bg"] = AfterRefreshError]
  /\ bgSleepLeft' = SleepSecs
  /\ UNCHANGED << regVars, uiVars, envVars, fileVars, memVars, guardVars, phase, fetchVars, cbVars,
                  ghostVars >>

\* time.sleep(300) returns.
BgWake ==
  /\ pc["bg"] = "sleep"
  /\ bgSleepLeft = 0
  /\ pc' = [pc EXCEPT !["bg"] = "r_call"]
  /\ UNCHANGED << regVars, uiVars, envVars, fileVars, memVars, guardVars, phase, fetchVars, bgVars,
                  cbVars, ghostVars >>

\* Time passes.
Tick ==
  /\ pc["bg"] = "sleep"
  /\ bgSleepLeft > 0
  /\ bgSleepLeft' = IF bgSleepLeft > TickSecs THEN bgSleepLeft - TickSecs ELSE 0
  /\ UNCHANGED << regVars, uiVars, envVars, fileVars, memVars, guardVars, phase, pc, fetchVars,
                  bgIdx, cbVars, ghostVars >>

\* ----------------------------------------------------------- request threads
StartServing(w, c) ==
  /\ phase["main"] = "serving"
  /\ pc[w] = "idle"
  /\ cb' = [cb EXCEPT ![w] = c]
  /\ cbState' = [cbState EXCEPT ![w] = "running"]
  /\ cbResp' = [cbResp EXCEPT ![w] = NoResponse]
  /\ out' = [out EXCEPT ![w] = None]
  /\ shown' = [shown EXCEPT ![w] = NotShown]
  /\ pc' = [pc EXCEPT ![w] = "s_acquire"]
  /\ ResetCounts(w)

\* A request for page callback p arrives (a page load, a changed filter):
\* the before_request hook _ensure_bg_started runs first.
BeginRequest(w, p) ==
  /\ requests < MaxRequests
  /\ requests' = requests + 1
  /\ \E y \in Years : cbYear' = [cbYear EXCEPT ![w] = y]
  /\ StartServing(w, Callback("page", p, "none"))
  /\ UNCHANGED << regVars, uiVars, srvData, changes, faults, fileVars, memVars, guardVars,
                  phase, fetchVars, bgVars, cbArg, cbIdx, lastGood, fgood, fsync, watch >>

\* Any other request (the layout, an asset): only the hook runs.
PlainRequest(w) ==
  /\ cbYear' = [cbYear EXCEPT ![w] = 0]
  /\ StartServing(w, Callback("plain", "none", "none"))
  /\ UNCHANGED << regVars, uiVars, envVars, fileVars, memVars, guardVars, phase, fetchVars,
                  bgVars, cbArg, cbIdx, lastGood, fgood, fsync, watch >>

\* The request of a callback that browser b has triggered; it carries the
\* store's value (Input or State).  The renderer does not run two requests of
\* the same callback of one browser at a time.
BeginCallback(w, b, k) ==
  /\ k \in pending[b]
  /\ \A v \in Workers : pc[v] = "idle" \/ cb[v] # Callback(k, view[b], b)
  /\ pending' = [pending EXCEPT ![b] = @ \ {k}]
  /\ cbArg' = [cbArg EXCEPT ![w] = store[b]]
  /\ \E y \in (IF k = "page" THEN Years ELSE {0}) : cbYear' = [cbYear EXCEPT ![w] = y]
  /\ StartServing(w, Callback(k, view[b], b))
  /\ UNCHANGED << regVars, srvVersion, verStable, refreshLeft, store, label, view, pollLeft, envVars,
                  fileVars, memVars, guardVars, phase, fetchVars, bgVars, cbIdx,
                  lastGood, fgood, fsync, watch >>

\* A plain request ends after the hook.
PlainDone(w) ==
  /\ pc[w] = "s_done" /\ cb[w].kind = "plain"
  /\ cbState' = [cbState EXCEPT ![w] = "done"]
  /\ pc' = [pc EXCEPT ![w] = "idle"]
  /\ UNCHANGED << regVars, uiVars, envVars, fileVars, memVars, guardVars, phase, fetchVars,
                  bgVars, cb, cbArg, cbYear, shown, cbIdx, cbResp, out, ghostVars >>

\* The page callback body.  A callback that uses the accessor returns the
\* "no data" result at once when no year is selected, and calls
\* `df = get_df_...()` otherwise; the other callbacks work on the module-level
\* name they imported.
WorkerCallback(w) ==
  /\ pc[w] = "s_done" /\ cb[w].kind = "page"
  /\ IF PageTable(cb[w].page).accessor /\ cbYear[w] # 0
       THEN /\ EnterGet(w, PageTable(cb[w].page).res)
            /\ UNCHANGED << cbState, out, shown >>
       ELSE /\ out' = [out EXCEPT ![w] =
                         IF PageTable(cb[w].page).accessor THEN None ELSE df_tableenrolx]
            /\ shown' = [shown EXCEPT ![w] =
                           update_dashboard(cb[w].page, out'[w], cbYear[w])]
            /\ cbState' = [cbState EXCEPT ![w] =
                             IF shown'[w] = Raised THEN "error" ELSE "done"]
            /\ pc' = [pc EXCEPT ![w] = "idle"]
            /\ UNCHANGED fres
  /\ UNCHANGED << regVars, uiVars, envVars, fileVars, memVars, guardVars, phase, finm,
                  fstatus, fbody, fetag, fret, gret, bgVars, cb, cbArg, cbYear, cbIdx,
                  cbResp, ghostVars >>

\* The accessor returned: the callback renders from what it returned.
WorkerRender(w) ==
  /\ pc[w] = "back" /\ cb[w].kind = "page"
  /\ out' = [out EXCEPT ![w] = gret[w]]
  /\ shown' = [shown EXCEPT ![w] = update_dashboard(cb[w].page, gret[w], cbYear[w])]
  /\ cbState' = [cbState EXCEPT ![w] = IF shown'[w] = Raised THEN "error" ELSE "done"]
  /\ pc' = [pc EXCEPT ![w] = "idle"]
  /\ UNCHANGED << regVars, uiVars, envVars, fileVars, memVars, guardVars, phase, fetchVars,
                  bgVars, cb, cbArg, cbYear, cbIdx, cbResp, ghostVars >>

\* The accessor raised: the callback fails.
WorkerError(w) ==
  /\ pc[w] = "raise" /\ cb[w].kind = "page"
  /\ shown' = [shown EXCEPT ![w] = Raised]
  /\ cbState' = [cbState EXCEPT ![w] = "error"]
  /\ pc' = [pc EXCEPT ![w] = "idle"]
  /\ UNCHANGED << regVars, uiVars, envVars, fileVars, memVars, guardVars, phase, fetchVars,
                  bgVars, cb, cbArg, cbYear, cbIdx, cbResp, out, ghostVars >>

\* ---------------------------------------------------------- the version poll
\* bool(x) of a store value or of get_warehouse_version's result.
Truthy(v) == v.set

\* get_warehouse_version on a response that raise_for_status accepted.
get_warehouse_version(resp) ==
  IF resp.shape = "list" /\ resp.n > 0
    THEN Version(resp.row.ID, resp.row.versionDateTime)
  ELSE IF resp.shape = "dict"
    THEN Version(resp.row.ID, resp.row.versionDateTime)
  ELSE NoVersion

\* Faulty variant: the comparison with the stored version is missing.
UnchangedNever(new_ver, current) == FALSE

\* `if current and new_ver == current: raise PreventUpdate`
Unchanged(new_ver, current) == Truthy(current) /\ new_ver = current

\* poll_warehouse_version(_n, current): update is FALSE for PreventUpdate.
poll_warehouse_version(resp, current) ==
  IF resp.shape = "error"
    THEN [update |-> FALSE, value |-> NoVersion]
  ELSE IF ~Truthy(get_warehouse_version(resp))
    THEN [update |-> FALSE, value |-> NoVersion]
  ELSE IF Unchanged(get_warehouse_version(resp), current)
    THEN [update |-> FALSE, value |-> NoVersion]
  ELSE [update |-> TRUE, value |-> get_warehouse_version(resp)]

\* _format_last_updated
format_last_updated(v) ==
  IF ~Truthy(v) \/ v.dt = 0 THEN UnknownLabel
  ELSE IF v.dt = BadDateTime THEN [kind |-> "raw", dt |-> v.dt]
  ELSE [kind |-> "pretty", dt |-> v.dt]

\* Faulty variant: the footer callback does not listen to the store.
StoreInputsNoFooter(b) == IF PageTable(view[b]).store THEN {"page"} ELSE {}

\* The callbacks of browser b that have the store as an Input.
StoreInputs(b) ==
  {"footer"} \cup (IF PageTable(view[b]).store THEN {"page"} ELSE {})

\* The answers the version endpoint can give while it serves `row`.
GoodResponses(row) == {Response("list", 1, row), Response("dict", 1, row)}
BadResponses ==
  { Response("list", 0, NoRow), Response("dict", 1, NoRow),
    Response("other", 0, NoRow), Response("error", 0, NoRow) }

\* A browser loads the app on page p: every callback of the layout gets its
\* initial call.
Connect(b, p) ==
  /\ phase["main"] = "serving"
  /\ view[b] = "none"
  /\ view' = [view EXCEPT ![b] = p]
  /\ pending' = [pending EXCEPT ![b] = {"poll", "footer", "page", "refresh"}]
  /\ UNCHANGED << regVars, srvVersion, verStable, refreshLeft, store, label, pollLeft, envVars, fileVars,
                  memVars, guardVars, phase, pc, fetchVars, bgVars, cbVars,
                  ghostVars >>

\* dcc.Interval "warehouse-version-tick" fires.
PollDue(b) ==
  /\ view[b] # "none"
  /\ pollLeft[b] = 0
  /\ pollLeft' = [pollLeft EXCEPT ![b] = PollSecs]
  /\ pending' = [pending EXCEPT ![b] = @ \cup {"poll"}]
  /\ UNCHANGED << regVars, srvVersion, verStable, refreshLeft, store, label, view, envVars, fileVars,
                  memVars, guardVars, phase, pc, fetchVars, bgVars, cbVars,
                  ghostVars >>

\* Time passes in the browsers.
TickPoll ==
  /\ \E b \in Browsers : view[b] # "none" /\ pollLeft[b] > 0
  /\ pollLeft' = [b \in Browsers |->
                    IF view[b] # "none" /\ pollLeft[b] > 0
                      THEN (IF pollLeft[b] > TickSecs THEN pollLeft[b] - TickSecs ELSE 0)
                      ELSE pollLeft[b]]
  /\ UNCHANGED << regVars, srvVersion, verStable, refreshLeft, store, label, view, pending, envVars,
                  fileVars, memVars, guardVars, phase, pc, fetchVars, bgVars,
                  cbVars, ghostVars >>

\* poll_warehouse_version runs: the GET of the version endpoint, then the
\* store is updated unless PreventUpdate was raised.
PollRun(w) ==
  /\ pc[w] = "s_done" /\ cb[w].kind = "poll"
  /\ \E resp \in GoodResponses(srvVersion) \cup BadResponses :
       /\ IF resp \in BadResponses THEN ~verStable /\ Fault ELSE NoFault
       /\ cbResp' = [cbResp EXCEPT ![w] = resp]
       /\ LET res == poll_warehouse_version(resp, cbArg[w])
              b == cb[w].browser
          IN IF res.update
               THEN /\ store' = [store EXCEPT ![b] = res.value]
                    /\ pending' = [pending EXCEPT ![b] = @ \cup StoreInputs(b)]
                    /\ cbState' = [cbState EXCEPT ![w] = "done"]
               ELSE /\ cbState' = [cbState EXCEPT ![w] = "prevented"]
                    /\ UNCHANGED << store, pending >>
  /\ pc' = [pc EXCEPT ![w] = "idle"]
  /\ UNCHANGED << regVars, srvVersion, verStable, refreshLeft, label, view, pollLeft, srvData, changes,
                  requests, fileVars, memVars, guardVars, phase, fetchVars, bgVars,
                  cb, cbArg, cbYear, shown, cbIdx, out, nLogin, nGet, lastGood, fgood, fsync >>

\* _update_footer_label(version_data)
FooterRun(w) ==
  /\ pc[w] = "s_done" /\ cb[w].kind = "footer"
  /\ IF Truthy(cbArg[w])
       THEN /\ label' = [label EXCEPT ![cb[w].browser] = format_last_updated(cbArg[w])]
            /\ cbState' = [cbState EXCEPT ![w] = "done"]
       ELSE /\ cbState' = [cbState EXCEPT ![w] = "prevented"]
            /\ UNCHANGED label
  /\ pc' = [pc EXCEPT ![w] = "idle"]
  /\ UNCHANGED << regVars, srvVersion, verStable, refreshLeft, store, view, pollLeft, pending, envVars,
                  fileVars, memVars, guardVars, phase, fetchVars, bgVars, cb, cbArg, cbYear, shown, cbIdx,
                  cbResp, out, ghostVars >>

\* The warehouse is rebuilt: the version endpoint serves another row.
VersionChange(row) ==
  /\ ~verStable
  /\ changes < MaxChanges
  /\ row # srvVersion
  /\ changes' = changes + 1
  /\ srvVersion' = row
  /\ UNCHANGED << regVars, verStable, refreshLeft, store, label, view, pollLeft, pending, srvData, faults,
                  requests, fileVars, memVars, guardVars, phase, pc, fetchVars,
                  bgVars, cbVars, ghostVars >>

\* From now on the version endpoint always returns the same row.
Stabilize ==
  /\ ~verStable
  /\ verStable' = TRUE
  /\ UNCHANGED << regVars, srvVersion, refreshLeft, store, label, view, pollLeft, pending,
                  envVars, fileVars, memVars, guardVars, phase, pc, fetchVars,
                  bgVars, cbVars, ghostVars >>

\* ------------------------------------------- the "bg-refresh" Interval callback
\* dcc.Interval "bg-refresh" fires in browser b.
RefreshDue(b) ==
  /\ view[b] # "none"
  /\ refreshLeft[b] = 0
  /\ refreshLeft' = [refreshLeft EXCEPT ![b] = RefreshSecs]
  /\ pending' = [pending EXCEPT ![b] = @ \cup {"refresh"}]
  /\ UNCHANGED << regVars, srvVersion, verStable, store, label, view, pollLeft, envVars,
                  fileVars, memVars, guardVars, phase, pc, fetchVars, bgVars,
                  cbVars, ghostVars >>

\* Time passes for the "bg-refresh" Intervals.
TickRefresh ==
  /\ \E b \in Browsers : view[b] # "none" /\ refreshLeft[b] > 0
  /\ refreshLeft' = [b \in Browsers |->
                       IF view[b] # "none" /\ refreshLeft[b] > 0
                         THEN (IF refreshLeft[b] > TickSecs
                                 THEN refreshLeft[b] - TickSecs ELSE 0)
                         ELSE refreshLeft[b]]
  /\ UNCHANGED << regVars, srvVersion, verStable, store, label, view, pollLeft, pending,
                  envVars, fileVars, memVars, guardVars, phase, pc, fetchVars,
                  bgVars, cbVars, ghostVars >>

\* _background_refresh(_) calls background_refresh_all in the request thread,
\* which starts with res_lookup.get().
CbCallRefresh(w) ==
  /\ pc[w] = "s_done" /\ cb[w].kind = "refresh"
  /\ cbIdx' = [cbIdx EXCEPT ![w] = 1]
  /\ EnterGet(w, RefreshOrder[1])
  /\ UNCHANGED << regVars, uiVars, envVars, fileVars, memVars, guardVars, phase, finm,
                  fstatus, fbody, fetag, fret, gret, bgVars, cb, cbState, cbArg, cbYear, shown,
                  cbResp, out, ghostVars >>

\* The next get() of the callback's background_refresh_all.
CbNextResource(w) ==
  /\ pc[w] = "back" /\ cb[w].kind = "refresh"
  /\ cbIdx[w] < Len(RefreshOrder)
  /\ cbIdx' = [cbIdx EXCEPT ![w] = @ + 1]
  /\ EnterGet(w, RefreshOrder[cbIdx[w] + 1])
  /\ UNCHANGED << regVars, uiVars, envVars, fileVars, memVars, guardVars, phase, finm,
                  fstatus, fbody, fetag, fret, gret, bgVars, cb, cbState, cbArg, cbYear, shown,
                  cbResp, out, ghostVars >>

\* background_refresh_all returned, after its last get() or after catching an
\* exception of a get(); the callback returns {"last": time.time()} for the
\* store "bg-refresh-state", which no callback reads.
CbRefreshDone(w) ==
  /\ cb[w].kind = "refresh"
  /\ \/ pc[w] = "back" /\ cbIdx[w] = Len(RefreshOrder)
     \/ pc[w] = "raise"
  /\ cbIdx' = [cbIdx EXCEPT ![w] = 0]
  /\ cbState' = [cbState EXCEPT ![w] = "done"]
  /\ pc' = [pc EXCEPT ![w] = "idle"]
  /\ UNCHANGED << regVars, uiVars, envVars, fileVars, memVars, guardVars, phase, fetchVars,
                  bgVars, cb, cbArg, cbYear, shown, cbResp, out, ghostVars >>

\* ------------------------------------------------------------- environment
\* The warehouse's data for r changes to d.
ServerChange(r, d) ==
  /\ changes < MaxChanges
  /\ d # srvData[r]
  /\ changes' = changes + 1
  /\ srvData' = [srvData EXCEPT ![r] = d]
  /\ lastGood' = [lastGood EXCEPT ![r] = NoGood]
  /\ fgood' = [t \in Threads |-> fgood[t] /\ fres[t] # r]
  /\ watch' = IF d # << >> THEN Watch("changed", r) ELSE NoWatch
  /\ UNCHANGED << regVars, uiVars, faults, requests, fileVars, memVars, guardVars, phase, pc,
                  fetchVars, bgVars, cbVars, nLogin, nGet, fsync >>

\* ----------------------------------------------------------- specification
Fetch(t) ==
  \/ FetchAuth(t)
  \/ FetchGet(t)
  \/ FetchRead304(t)
  \/ FetchFallback(t)
  \/ FetchOpenCache(t)
  \/ FetchDump(t)
  \/ FetchOpenEtag(t)
  \/ FetchWriteEtag(t)
  \/ GetReturn(t)

Start(t) ==
  \/ StartAcquire(t)
  \/ StartCheck(t)
  \/ StartSpawn(t)

Main ==
  \/ MainWarmup
  \/ MainImportPages
  \/ MainStartCall
  \/ MainServe
  \/ MainCrash

Bg ==
  \/ BgCallRefresh
  \/ BgNextResource
  \/ BgRefreshDone
  \/ BgRefreshError
  \/ BgWake
  \/ Tick

\* The program: import, the background refresher, page requests.
Next ==
  \/ Main
  \/ Bg
  \/ \E t \in {"main", "bg"} \cup ActiveWorkers : Fetch(t) \/ Start(t)
  \/ \E w \in ActiveWorkers, p \in Pages : BeginRequest(w, p)
  \/ \E w \in ActiveWorkers : WorkerCallback(w) \/ WorkerRender(w) \/ WorkerError(w)
  \/ \E r \in Res, d \in Payloads : ServerChange(r, d)

Spec == Init /\ [][Next]_vars

\* The import-time fetches: with no cache file yet, none of them sends an
\* ETag, so none is answered 304.
ImportFetch ==
  \/ FetchAuth("main")
  \/ FetchGet("main")
  \/ FetchFallback("main")
  \/ FetchOpenCache("main")
  \/ FetchDump("main")
  \/ FetchOpenEtag("main")
  \/ FetchWriteEtag("main")
  \/ GetReturn("main")

\* The start-once guard under concurrent requests: the import with its
\* import-time call, and requests that run the before_request hook.  What
\* the started thread then does is left to Spec.
NextGuard ==
  \/ Main
  \/ ImportFetch
  \/ \E t \in {"main"} \cup HookWorkers : Start(t)
  \/ \E w \in HookWorkers : PlainRequest(w) \/ PlainDone(w)

SpecGuard == Init /\ [][NextGuard]_vars

\* The browser-driven callbacks: the version poll, the footer, the pages.
NextUI ==
  \/ Main
  \/ \E t \in {"main"} \cup ActiveWorkers : Fetch(t) \/ Start(t)
  \/ \E b \in Browsers, p \in Pages : Connect(b, p)
  \/ \E b \in Browsers : PollDue(b)
  \/ TickPoll
  \/ \E w \in ActiveWorkers, b \in Browsers, k \in {"poll", "footer", "page"} :
       BeginCallback(w, b, k)
  \/ \E w \in ActiveWorkers :
       WorkerCallback(w) \/ WorkerRender(w) \/ WorkerError(w) \/ PollRun(w)
         \/ FooterRun(w)
  \/ \E row \in VersionRows : VersionChange(row)

SpecUI == Init /\ [][NextUI]_vars

\* The footer pipeline under fair scheduling: threads that can run do run
\* (weak fairness), a request the browser has to send is accepted by a
\* request thread even if the threads are busy again and again (the server
\* queues connections: strong fairness), time passes and the Interval keeps
\* firing.  The version endpoint may fail and change until it settles.  The
\* warehouse's data is fixed and the page callbacks are left to SpecUI: the
\* footer depends on neither.
WorkerStep(w) == Start(w) \/ PollRun(w) \/ FooterRun(w)

NextPoll ==
  \/ Main
  \/ ImportFetch
  \/ \E t \in {"main"} \cup ActiveWorkers : Start(t)
  \/ \E b \in Browsers, p \in Pages : Connect(b, p)
  \/ \E b \in Browsers : PollDue(b)
  \/ TickPoll
  \/ \E w \in ActiveWorkers, b \in Browsers, k \in {"poll", "footer"} :
       BeginCallback(w, b, k)
  \/ \E w \in ActiveWorkers : PollRun(w) \/ FooterRun(w)
  \/ \E row \in VersionRows : VersionChange(row)
  \/ Stabilize

Fairness ==
  /\ WF_vars(Main \/ ImportFetch \/ Start("main"))
  /\ \A w \in ActiveWorkers : WF_vars(WorkerStep(w))
  /\ \A b \in Browsers, k \in {"poll", "footer"} :
       SF_vars(\E w \in ActiveWorkers : BeginCallback(w, b, k))
  /\ \A b \in Browsers : WF_vars(PollDue(b))
  /\ WF_vars(TickPoll)

InitPoll == Init /\ srvData = [r \in Res |-> RowsOf(1)]

SpecPoll == InitPoll /\ [][NextPoll]_vars /\ Fairness

\* Periodic refresh with browsers connected: the 'bg-refresh' thread and the
\* "bg-refresh" Interval callback of each browser, over fixed warehouse data.
RefreshCallback(w) ==
  \/ CbCallRefresh(w)
  \/ CbNextResource(w)
  \/ CbRefreshDone(w)

NextRefresh ==
  \/ Main
  \/ Bg
  \/ \E t \in {"main", "bg"} \cup ActiveWorkers : Fetch(t) \/ Start(t)
  \/ \E b \in Browsers, p \in Pages : Connect(b, p)
  \/ \E b \in Browsers : RefreshDue(b)
  \/ TickRefresh
  \/ \E w \in ActiveWorkers, b \in Browsers : BeginCallback(w, b, "refresh")
  \/ \E w \in ActiveWorkers : RefreshCallback(w)

SpecRefresh == InitPoll /\ [][NextRefresh]_vars

\* The process starts again after an earlier run was stopped.  The cache
\* directory is as that run left it: no files; a complete write of a payload
\* the warehouse served; a cache file without sidecar (a 200 without ETag, or
\* the run stopped between the two writes); or a cache file emptied by
\* open(cache_file, "w") or cut short in json.dump (the run stopped there, or
\* the dump failed), beside the sidecar of an earlier or a concurrent complete
\* write.  Memory starts as in Init.  The failures and the changes of the
\* warehouse are over: logins succeed and every GET is answered 200 or 304.
LeftOver ==
  {[cache |-> NoFile, etag |-> NoEtagFile]}
    \cup {[cache |-> JsonDump(d), etag |-> EtagText(ETagOf(d))] : d \in Payloads}
    \cup {[cache |-> JsonDump(d), etag |-> NoEtagFile] : d \in Payloads}
    \cup {[cache |-> Truncated, etag |-> EtagText(ETagOf(d))] : d \in Payloads}
    \cup {[cache |-> Truncated, etag |-> NoEtagFile]}

InitRestart ==
  /\ srvData \in [Res -> Payloads]
  /\ changes = MaxChanges /\ faults = MaxFaults /\ requests = 0
  /\ \E left \in [Res -> LeftOver] :
       /\ cacheFile = [r \in Res |-> left[r].cache]
       /\ etagFile = [r \in Res |-> left[r].etag]
  /\ obj = [r \in Res |-> None]
  /\ lookup_dict = Dict(<< >>)
  /\ auth_status = "not_authenticated"
  /\ data_status = "no_data_loaded"
  /\ bg_thread_started = FALSE
  /\ bg_lock = "free"
  /\ bgThreads = 0
  /\ phase = [t \in Threads |->
                IF t = "main" THEN "warmup" ELSE IF t = "bg" THEN "none" ELSE "idle"]
  /\ pc = [t \in Threads |-> IF t = "main" THEN "import" ELSE "idle"]
  /\ fres = [t \in Threads |-> "lookups"]
  /\ finm = [t \in Threads |-> 0]
  /\ fstatus = [t \in Threads |-> 0]
  /\ fbody = [t \in Threads |-> << >>]
  /\ fetag = [t \in Threads |-> 0]
  /\ fret = [t \in Threads |-> None]
  /\ gret = [t \in Threads |-> None]
  /\ bgIdx = 0
  /\ bgSleepLeft = 0
  /\ cb = [w \in Workers |-> NoCallback]
  /\ cbState = [w \in Workers |-> "none"]
  /\ cbArg = [w \in Workers |-> NoVersion]
  /\ cbResp = [w \in Workers |-> NoResponse]
  /\ out = [w \in Workers |-> None]
  /\ cbIdx = [w \in Workers |-> 0]
  /\ cbYear = [w \in Workers |-> 0]
  /\ shown = [w \in Workers |-> NotShown]
  /\ srvVersion = FirstVersionRow
  /\ verStable = FALSE
  /\ store = [b \in Browsers |-> NoVersion]
  /\ label = [b \in Browsers |-> UnknownLabel]
  /\ view = [b \in Browsers |-> "none"]
  /\ pollLeft = [b \in Browsers |-> PollSecs]
  /\ pending = [b \in Browsers |-> {}]
  /\ refreshLeft = [b \in Browsers |-> RefreshSecs]
  /\ nLogin = [t \in Threads |-> 0]
  /\ nGet = [t \in Threads |-> 0]
  /\ lastGood = [r \in Res |-> NoGood]
  /\ fgood = [t \in Threads |-> FALSE]
  /\ fsync = [t \in Threads |-> FALSE]
  /\ RegInit
  /\ watch = NoWatch

\* A fetch while the warehouse responds normally: no status other than 200
\* and 304, so no stale fallback.
NormalFetch(t) ==
  \/ FetchAuth(t)
  \/ FetchGet(t)
  \/ FetchRead304(t)
  \/ FetchOpenCache(t)
  \/ FetchDump(t)
  \/ FetchOpenEtag(t)
  \/ FetchWriteEtag(t)
  \/ GetReturn(t)

\* The restarted process with no request arriving: the import, then the
\* 'bg-refresh' thread tick after tick.
NextRestart ==
  \/ MainWarmup
  \/ MainImportPages
  \/ MainStartCall
  \/ MainServe
  \/ Start("main")
  \/ BgCallRefresh
  \/ BgNextResource
  \/ BgRefreshDone
  \/ BgWake
  \/ Tick
  \/ \E t \in {"main", "bg"} : NormalFetch(t)

SpecRestart == InitRestart /\ [][NextRestart]_vars

\* --------------------------------------- ConnectionStatusRegistry methods
notRegVars == << envVars, fileVars, memVars, guardVars, phase, pc, fetchVars,
                 bgVars, cbVars, uiVars, ghostVars >>

\* A thread calls a method of connection_registry.
RegCall(c, op, n, m) ==
  /\ rpc[c] = "idle"
  /\ regCalls < MaxRegCalls
  /\ regCalls' = regCalls + 1
  /\ rcall' = [rcall EXCEPT ![c] = [op |-> op, name |-> n, msg |-> m]]
  /\ rpc' = [rpc EXCEPT ![c] = "lock"]
  /\ UNCHANGED << notRegVars, statuses, regLock, rres, lastCall, lastApplied >>

\* Faulty variant: the lock never makes a caller wait.
CanAcquireAlways == TRUE

\* threading.Lock: acquire blocks while the lock is held.
CanAcquire == regLock = "free"

\* `with self._lock:` entered.
RegAcquire(c) ==
  /\ rpc[c] = "lock"
  /\ CanAcquire
  /\ regLock' = c
  /\ rpc' = [rpc EXCEPT ![c] = "in"]
  /\ UNCHANGED << notRegVars, statuses, rcall, rres, regCalls, lastCall, lastApplied >>

\* register: a new ConnectionStatus unless the name is already there; the
\* status of the name is returned.
RegRegister(c) ==
  /\ rpc[c] = "in" /\ rcall[c].op = "register"
  /\ statuses' = IF rcall[c].name \in DOMAIN statuses THEN statuses
                 ELSE statuses @@ (rcall[c].name :> ConnectionStatus(rcall[c].name))
  /\ rres' = [rres EXCEPT ![c] = [names |-> {rcall[c].name}, flag |-> FALSE]]
  /\ rpc' = [rpc EXCEPT ![c] = "unlock"]
  /\ UNCHANGED << notRegVars, regLock, rcall, regCalls, lastCall, lastApplied >>

\* set_success / set_error: `if name in self._statuses`, then the first
\* assignment of ConnectionStatus.set_success / set_error.
RegSetFlag(c) ==
  /\ rpc[c] = "in" /\ rcall[c].op \in {"set_success", "set_error"}
  /\ IF rcall[c].name \in DOMAIN statuses
       THEN /\ statuses' = [statuses EXCEPT ![rcall[c].name].is_connected =
                                              (rcall[c].op = "set_success")]
            /\ rpc' = [rpc EXCEPT ![c] = "stamp"]
       ELSE /\ rpc' = [rpc EXCEPT ![c] = "unlock"]
            /\ UNCHANGED statuses
  /\ UNCHANGED << notRegVars, regLock, rcall, rres, regCalls, lastCall, lastApplied >>

\* The second assignment: last_success or last_error = datetime.now().
RegSetStamp(c) ==
  /\ rpc[c] = "stamp"
  /\ statuses' = IF rcall[c].op = "set_success"
                   THEN [statuses EXCEPT ![rcall[c].name].last_success = Now]
                   ELSE [statuses EXCEPT ![rcall[c].name].last_error = Now]
  /\ rpc' = [rpc EXCEPT ![c] = "msg"]
  /\ UNCHANGED << notRegVars, regLock, rcall, rres, regCalls, lastCall, lastApplied >>

\* The third assignment: error_message = None or message.
RegSetMessage(c) ==
  /\ rpc[c] = "msg"
  /\ statuses' = [statuses EXCEPT ![rcall[c].name].error_message =
                     IF rcall[c].op = "set_success" THEN NoValue ELSE rcall[c].msg]
  /\ rpc' = [rpc EXCEPT ![c] = "unlock"]
  /\ UNCHANGED << notRegVars, regLock, rcall, rres, regCalls, lastCall, lastApplied >>

\* `[s for s in self._statuses.values() if not s.is_connected]`
AllErrors == {n \in DOMAIN statuses : ~statuses[n].is_connected}

\* get_all_errors / has_errors: the scan of the statuses.
RegRead(c) ==
  /\ rpc[c] = "in" /\ rcall[c].op \in {"get_all_errors", "has_errors"}
  /\ rres' = [rres EXCEPT ![c] =
                IF rcall[c].op = "get_all_errors"
                  THEN [names |-> AllErrors, flag |-> FALSE]
                  ELSE [names |-> {}, flag |-> AllErrors # {}]]
  /\ rpc' = [rpc EXCEPT ![c] = "unlock"]
  /\ UNCHANGED << notRegVars, statuses, regLock, rcall, regCalls, lastCall, lastApplied >>

\* The `with` block is left: the lock is released and the call completes.
RegRelease(c) ==
  /\ rpc[c] = "unlock"
  /\ regLock' = "free"
  /\ rpc' = [rpc EXCEPT ![c] = "idle"]
  /\ IF rcall[c].op \in {"set_success", "set_error"}
       THEN /\ lastCall' = [lastCall EXCEPT ![rcall[c].name] =
                              IF rcall[c].op = "set_success" THEN "success" ELSE "error"]
            /\ lastApplied' = IF rcall[c].name \in DOMAIN statuses
                                THEN [lastApplied EXCEPT ![rcall[c].name] =
                                        lastCall'[rcall[c].name]]
                                ELSE lastApplied
       ELSE UNCHANGED << lastCall, lastApplied >>
  /\ UNCHANGED << notRegVars, statuses, rcall, rres, regCalls >>

NextRegistry ==
  \E c \in Callers :
    \/ \E n \in RegNames :
         \/ RegCall(c, "register", n, NoValue)
         \/ RegCall(c, "set_success", n, NoValue)
         \/ \E m \in Messages : RegCall(c, "set_error", n, m)
    \/ RegCall(c, "get_all_errors", "none", NoValue)
    \/ RegCall(c, "has_errors", "none", NoValue)
    \/ RegAcquire(c)
    \/ RegRegister(c)
    \/ RegSetFlag(c)
    \/ RegSetStamp(c)
    \/ RegSetMessage(c)
    \/ RegRead(c)
    \/ RegRelease(c)

\* The registry under calls from several threads, the rest of the program
\* at rest.
SpecRegistry == InitPoll /\ [][NextRegistry]_vars

\* ------------------------------------------------------------------ claims
\* C1 (SpecGuard).  However the import-time call and the before_request hooks
\* of concurrent requests interleave, at most one 'bg-refresh' thread is ever
\* started; once a call has returned exactly one has been started; and a call
\* that tests the flag after that starts nothing and returns.
C1_StartOnce ==
  /\ [](/\ bgThreads <= 1
        /\ ((\E t \in Threads : pc[t] = "s_done") \/ phase["main"] = "serving"
              => bgThreads = 1))
  /\ [][\A t \in Threads :
          bgThreads = 1 /\ pc[t] = "s_check" /\ pc'[t] # "s_check"
            => /\ pc'[t] = "s_done"
               /\ bgThreads' = 1
               /\ pc'["bg"] = pc["bg"]]_vars

\* Two request threads are inside the hook at once, one holding the lock, and
\* one thread has been started.
C1_Witness ==
  /\ pc["w1"] = "s_check" /\ pc["w2"] = "s_acquire"
  /\ bg_lock = "w1"
  /\ bgThreads = 1

\* C2 (Spec).  The in-memory copy of a resource changes only in a get() whose
\* fetch returned a non-empty object of the resource's type (a dict for the
\* lookups, a DataFrame otherwise), and it becomes that object; a get() whose
\* fetch returned an empty result leaves every copy as it was and returns the
\* copy it found.
C2_ReplaceOnlyIfNonEmpty ==
  [][/\ \A r \in Res :
          obj'[r] # obj[r]
            => \E t \in Threads :
                 /\ pc[t] = "ret" /\ pc'[t] = "back" /\ fres[t] = r
                 /\ fret[t].rows # << >>
                 /\ fret[t].kind = (IF r = "lookups" THEN "dict" ELSE "df")
                 /\ obj'[r] = fret[t]
     /\ \A t \in Threads :
          pc[t] = "ret" /\ pc'[t] = "back" /\ fret[t].rows = << >>
            => obj' = obj /\ gret'[t] = obj[fres[t]]]_vars

\* A get() has just returned after an empty fetch, and what it returned is the
\* non-empty copy that was there before.
C2_Witness ==
  \E t \in Threads :
    /\ pc[t] = "back"
    /\ fret[t].kind # "None" /\ fret[t].rows = << >>
    /\ obj[fres[t]].rows # << >>
    /\ gret[t] = obj[fres[t]]

\* C3 (Spec), as the specification states it.  Whenever fetch_data ends without
\* fresh data (no token, or a status other than 200 and 304) while the cache
\* file is readable, it returns the payload of the cache file.
C3_StaleFallback ==
  [][\A t \in Threads :
       /\ pc[t] \in {"auth", "fallback"} /\ pc'[t] = "ret"
       /\ cacheFile[fres[t]].valid
       => fret'[t] = Wrap(fres[t], cacheFile[fres[t]].rows)]_vars

C5_NoHttpInPageCallback ==
  \A w \in Workers :
    cb[w].kind = "page" => nLogin[w] = 0 /\ nGet[w] = 0

\* C6 (Spec).  The background thread leaves a call of background_refresh_all,
\* normally or by an exception, only into a sleep of 300 seconds; the sleep
\* ends only when the 300 seconds have passed, and only into the next call;
\* and the thread, once started, can always take a step.
C6_LoopForever ==
  /\ [](phase["bg"] = "loop" => ENABLED (Bg \/ Fetch("bg")))
  /\ [][LET InCall(q) == q \in {"auth", "get", "read304", "fallback", "wopen",
                                "wdump", "eopen", "ewrite", "ret", "back", "raise"}
        IN /\ (InCall(pc["bg"]) /\ ~InCall(pc'["bg"])
                 => pc'["bg"] = "sleep" /\ bgSleepLeft' = SleepSecs)
           /\ (~InCall(pc["bg"]) /\ InCall(pc'["bg"]) => pc["bg"] = "r_call")
           /\ (pc["bg"] = "sleep" /\ pc'["bg"] # "sleep"
                 => pc'["bg"] = "r_call" /\ bgSleepLeft = 0)
           /\ (pc["bg"] = "sleep" /\ bgSleepLeft' # bgSleepLeft
                 => pc'["bg"] = "sleep" /\ bgSleepLeft' < bgSleepLeft)
           /\ (pc["bg"] = "r_call" /\ pc'["bg"] # "r_call" => InCall(pc'["bg"]))]_vars

\* The sleep after a refresh that an exception ended at its first resource is
\* over, and the thread is about to call background_refresh_all again.
C6_Witness ==
  /\ pc["bg"] = "r_call"
  /\ fres["bg"] = "lookups" /\ nLogin["bg"] = 1 /\ nGet["bg"] = 1
  /\ bgSleepLeft = 0

\* C7 (Spec), as the specification states it.  The warehouse's data for a
\* resource changed to a non-empty payload and nothing has failed since: when
\* the next background refresh has completed, the resource's in-memory copy
\* and its cache file hold that payload.
C7_RefreshDelivers ==
  watch.stage = "ticking" /\ pc["bg"] = "back" /\ bgIdx = Len(RefreshOrder)
    => /\ obj[watch.res] = Wrap(watch.res, srvData[watch.res])
       /\ cacheFile[watch.res] = JsonDump(srvData[watch.res])

\* C8 (SpecUI).  The store of a browser changes only when its poll completes
\* with a response that carries a row, and it becomes the version of that row,
\* which differs from the stored one; a poll whose request failed, whose
\* response carries no row, or whose version equals the stored one raises
\* PreventUpdate and leaves the store alone.
C8_StoreChangesOnlyOnNewVersion ==
  [][/\ \A b \in Browsers :
          store'[b] # store[b]
            => \E w \in Workers :
                 /\ cb[w] = Callback("poll", view[b], b)
                 /\ pc[w] = "s_done" /\ pc'[w] = "idle"
                 /\ cbState'[w] = "done"
                 /\ \/ cbResp'[w].shape = "list" /\ cbResp'[w].n > 0
                    \/ cbResp'[w].shape = "dict"
                 /\ store'[b].set
                 /\ store'[b].id = cbResp'[w].row.ID
                 /\ store'[b].dt = cbResp'[w].row.versionDateTime
     /\ \A w \in Workers :
          /\ cb[w].kind = "poll" /\ pc[w] = "s_done" /\ pc'[w] = "idle"
          /\ \/ cbResp'[w].shape = "error"
             \/ cbResp'[w].shape = "other"
             \/ cbResp'[w].shape = "list" /\ cbResp'[w].n = 0
             \/ /\ store[cb[w].browser].set
                /\ store[cb[w].browser].id = cbResp'[w].row.ID
                /\ store[cb[w].browser].dt = cbResp'[w].row.versionDateTime
          => cbState'[w] = "prevented" /\ store' = store]_vars

\* A poll has found the version it had stored earlier and raised PreventUpdate.
C8_Witness ==
  \E w \in Workers :
    /\ cb[w].kind = "poll" /\ cbState[w] = "prevented"
    /\ cbResp[w].shape = "list" /\ cbResp[w].n > 0
    /\ store[cb[w].browser].set
    /\ store[cb[w].browser].id = cbResp[w].row.ID
    /\ store[cb[w].browser].id # FirstVersionRow.ID

\* C9 (SpecPoll).  Once the version endpoint always returns the same row, the
\* store of every connected browser eventually holds that row's version and
\* its footer shows that row's versionDateTime, and both stay so.
C9_FooterConverges ==
  \A b \in Browsers :
    [](verStable /\ view[b] # "none"
         => <>[](/\ store[b].set
                 /\ store[b].id = srvVersion.ID
                 /\ store[b].dt = srvVersion.versionDateTime
                 /\ label[b].kind \in {"pretty", "raw"}
                 /\ label[b].dt = srvVersion.versionDateTime))

\* The endpoint has settled on a version other than the first one, and a
\* browser's store and footer show it.
C9_Witness ==
  \E b \in Browsers :
    /\ verStable /\ srvVersion # FirstVersionRow
    /\ store[b] = Version(srvVersion.ID, srvVersion.versionDateTime)
    /\ label[b].kind = "pretty" /\ label[b].dt = srvVersion.versionDateTime

\* C10 (SpecUI), as the specification states it.  Every change of the store
\* triggers the callback of the data page the browser shows, and a page
\* callback that runs with a year selected and ends otherwise than by an
\* exception of the accessor has obtained its frame through the accessor.
C10_StoreChangeRerendersPages ==
  [][/\ \A b \in Browsers :
          store'[b] # store[b] /\ view[b] \in Pages => "page" \in pending'[b]
     /\ \A w \in Workers :
          /\ cb[w].kind = "page" /\ cbYear[w] # 0
          /\ cbState[w] = "running" /\ cbState'[w] # "running" /\ pc[w] # "raise"
          => pc[w] = "back" /\ out'[w] = gret[w]]_vars

\* C11 (SpecRefresh), as the specification states it.  background_refresh_all
\* runs only in the 'bg-refresh' thread: no request thread is ever inside it,
\* and so no two executions of it overlap.
C11_OnlyBgThreadRefreshes ==
  /\ \A w \in Workers : cbIdx[w] = 0
  /\ Cardinality({w \in Workers : cbIdx[w] > 0}) + (IF bgIdx > 0 THEN 1 ELSE 0) <= 1

\* C12 (Spec), as the specification states it.  Without any lock around the
\* cache files: no thread reads a resource's cache file (after a 304 or as
\* stale fallback) while another thread has opened it for writing and not yet
\* written it; and a json.dump that does not fail leaves the cache file
\* holding exactly the payload it wrote.
C12_NoLockNeeded ==
  [][\A t \in Threads :
       /\ (/\ pc[t] \in {"read304", "fallback"} /\ pc'[t] = "ret"
           /\ cacheFile[fres[t]].exists
           => \A u \in Threads \ {t} : ~(pc[u] = "wdump" /\ fres[u] = fres[t]))
       /\ (pc[t] = "wdump" /\ pc'[t] # "wdump" /\ faults' = faults
           => cacheFile'[fres[t]] = JsonDump(fbody[t]))]_vars

\* C13 (Spec), as the specification states it.  A page callback that runs
\* with a year selected and whose data source gave None or an empty frame, or a
\* frame with no rows for that year, does not raise: it hands back the "no
\* data" return, whose alert carries a "No data..." message.
C13_NoDataBanner ==
  [][\A w \in Workers :
       /\ cb[w].kind = "page" /\ cbState[w] = "running" /\ cbState'[w] # "running"
       /\ pc[w] # "raise" /\ cbYear[w] # 0
       /\ \/ out'[w].kind = "None"
          \/ out'[w].rows = << >>
          \/ ~HasRowsFor(out'[w], cbYear[w])
       => /\ cbState'[w] = "done"
          /\ shown'[w].kind = "banner"
          /\ shown'[w].msg \in {"No data", "No data available.",
                                "No data available for year"}]_vars

\* C14 (SpecRestart), as the specification states it.  Whatever files earlier
\* failed, interrupted or concurrent fetches have left, once logins and GETs
\* succeed every get() of a resource whose warehouse payload is not empty
\* leaves the in-memory copy equal to that payload.
C14_RecoversOnNextTick ==
  [][\A t \in Threads :
       pc[t] = "ret" /\ pc'[t] = "back" /\ srvData[fres[t]] # << >>
         => obj'[fres[t]] = Wrap(fres[t], srvData[fres[t]])]_vars

\* C15 (Spec), as the specification states it.  Whenever no fetch of a
\* resource is between its open of the cache file and the end of its writes,
\* and both the cache file and the sidecar exist, the sidecar holds the ETag
\* of the payload stored in the cache file.
C15_SidecarMatchesCache ==
  \A r \in Res :
    /\ cacheFile[r].exists /\ etagFile[r].exists
    /\ \A t \in Threads : ~(fres[t] = r /\ pc[t] \in {"wdump", "eopen", "ewrite"})
    => /\ cacheFile[r].valid
       /\ etagFile[r].tag = ETagOf(cacheFile[r].rows)

C17_NotModifiedWritesNothing ==
  /\ [](\A t \in Threads : pc[t] = "read304" => fstatus[t] = 304 /\ finm[t] # 0)
  /\ [][\A t \in Threads :
          /\ (pc[t] \in {"auth", "get", "read304"} /\ pc'[t] # pc[t]
                /\ pc'[t] \in {"get", "read304", "ret"}
                /\ (pc'[t] = "ret" => pc[t] = "read304")
                => cacheFile' = cacheFile /\ etagFile' = etagFile)
          /\ (pc[t] = "read304" /\ pc'[t] # "read304" /\ cacheFile[fres[t]].exists
                => /\ pc'[t] = "ret"
                   /\ IF cacheFile[fres[t]].valid
                        THEN /\ fret'[t] = Wrap(fres[t], cacheFile[fres[t]].rows)
                             /\ data_status' = "not_modified_loaded_from_cache"
                        ELSE /\ fret'[t] = Empty(fres[t])
                             /\ data_status' = "cache_read_error_after_304")]_vars

\* A fetch was answered 304, found a cache file that cannot be parsed beside
\* its sidecar, and is returning the empty result with the read error.
C17_Witness ==
  \E t \in Threads :
    /\ pc[t] = "ret" /\ fstatus[t] = 304
    /\ cacheFile[fres[t]] = Truncated /\ etagFile[fres[t]].tag = finm[t]
    /\ fret[t] = Empty(fres[t])
    /\ data_status = "cache_read_error_after_304"

C20_RefreshAttemptsAll ==
  [][pc["bg"] \in {"back", "raise"} /\ pc'["bg"] \notin {"back", "raise", "auth"}
       => bgIdx = Len(RefreshOrder)]_vars

\* C21 (Spec).  The token obtained by get_auth_token is cached and reused by
\* consecutive fetch_data calls: one background refresh of all resources
\* performs at most one login request.
C21_OneLoginPerRefresh ==
  nLogin["bg"] <= 1

\* C22 (Spec).  The lookup tables a page render uses are those of the most
\* recent successful fetch of the lookups resource: a render that completes
\* after a refresh replaced the in-memory copy of lookups uses the replaced
\* copy.  (The render reads the module-level lookup_dict and the tables
\* derived from it.)
C22_RendersUseLatestLookups ==
  [][\A w \in Workers :
       /\ cb[w].kind = "page"
       /\ cbState[w] = "running" /\ cbState'[w] = "done"
       /\ shown'[w] = Charts
       /\ obj["lookups"].kind = "dict"
       => lookup_dict = obj["lookups"]]_vars

\* The moments at which the registry is looked at: its lock is free, or a
\* get_all_errors / has_errors call holds the lock and scans the statuses.
RegObserved ==
  \/ regLock = "free"
  \/ \E c \in Callers :
       rpc[c] = "in" /\ rcall[c].op \in {"get_all_errors", "has_errors"}

\* C23 (SpecRegistry), as the specification states it.  Under any
\* interleaving of register, set_success, set_error, get_all_errors and
\* has_errors calls, every registered status has no error message when it is
\* connected, and it is connected exactly when the last completed
\* set_success / set_error call for its name was set_success (not connected
\* and no message if neither was ever called).
C23_RegistryThreadSafe ==
  RegObserved =>
    \A n \in DOMAIN statuses :
      /\ statuses[n].is_connected => statuses[n].error_message = NoValue
      /\ statuses[n].is_connected <=> lastCall[n] = "success"
      /\ lastCall[n] = "none" =>
           ~statuses[n].is_connected /\ statuses[n].error_message = NoValue

\* C23 (SpecRegistry), amended.  The same, where the calls that count are the
\* set_success / set_error calls that found the name registered: a call for
\* a name that is not registered changes nothing, and the status registered
\* afterwards is not connected and has no message.
C23_RegistryThreadSafeOnceRegistered ==
  RegObserved =>
    \A n \in DOMAIN statuses :
      /\ statuses[n].is_connected => statuses[n].error_message = NoValue
      /\ statuses[n].is_connected <=> lastApplied[n] = "success"
      /\ lastApplied[n] = "error" => statuses[n].error_message \in Messages
      /\ lastApplied[n] = "none" =>
           ~statuses[n].is_connected /\ statuses[n].error_message = NoValue

\* A set_success call has marked as connected a status that an earlier
\* set_error had marked as failed, and is about to release the lock, while
\* another thread's call waits for the lock.
C23_Witness ==
  \E c, d \in Callers :
    /\ rpc[c] = "unlock" /\ rcall[c].op = "set_success"
    /\ rcall[c].name \in DOMAIN statuses
    /\ statuses[rcall[c].name].is_connected
    /\ statuses[rcall[c].name].last_error = Now
    /\ lastApplied[rcall[c].name] = "error"
    /\ rpc[d] = "lock"

====
